---- MODULE Spec2Model ----
(***************************************************************************)
(* Constraint-trace core of the prover: the trace table (Traces), the row  *)
(* evaluator (TraceEval) and the ADD/ADDI chip (AddChip), modelled as a    *)
(* state machine that follows test_k_trace_constrained_add_instructions:   *)
(* for each program step the CPU chip and then the ADD chip fill one row,  *)
(* and the filled trace is handed to the self-check.                       *)
(***************************************************************************)
EXTENDS Integers, Naturals, Sequences, FiniteSets, TLC

VARIABLES traces, row_idx, pc, cur, call, report, maskLog, evals

vars == <<traces, row_idx, pc, cur, call, report, maskLog, evals>>

(***************************************************************************)
(* Bounds of the model.                                                    *)
(***************************************************************************)
\* rows of the trace table (the program uses 2^log_size rows)
NumRows == 2
\* limbs 0..MaxSmallLimb and 255 are the operand limbs of SpecAdd
MaxSmallLimb == 1
\* log_size of the trace handed to the evaluation pipeline in SpecCircle
LogSize == 2

(***************************************************************************)
(* Program constants.                                                      *)
(***************************************************************************)
WORD_SIZE == 4
\* order of the field of BaseField (M31)
P == 2147483647
PREPROCESSED_TRACE_IDX == 0
ORIGINAL_TRACE_IDX == 1
PROGRAM_TRACE_IDX == 3
\* modulus for 8-bit limbs
modulus == 256

Rows == 0..(NumRows - 1)
Limbs == 0..(WORD_SIZE - 1)

(***************************************************************************)
(* BaseField arithmetic, on representatives 0..P-1.  No intermediate value *)
(* leaves -P..P, so the operators never exceed the integer range.          *)
(***************************************************************************)
FAdd(a, b) == IF a >= P - b THEN a - (P - b) ELSE a + b

FSub(a, b) == IF a >= b THEN a - b ELSE a + (P - b)

RECURSIVE FMulRec(_, _)
FMulRec(a, k) ==
    IF k = 0 THEN 0
    ELSE LET h == FMulRec(FAdd(a, a), k \div 2)
         IN  IF k % 2 = 1 THEN FAdd(h, a) ELSE h

FMul(a, b) == IF a < b THEN FMulRec(b, a) ELSE FMulRec(a, b)

\* BaseField::from(u32) for a value below 2^31
FromU32(n) == n % P

(***************************************************************************)
(* Column schema.                                                          *)
(***************************************************************************)
Columns == <<"IsAdd", "ValueA", "ValueAEffective", "ValueB", "ValueC", "CarryFlag">>

PreprocessedColumns == <<"IsFirst">>

ProgramColumns == <<"PrgMemoryFlag">>

size(col) == IF col \in {"IsAdd", "IsFirst", "PrgMemoryFlag"} THEN 1 ELSE WORD_SIZE

RECURSIVE SumSizes(_, _)
SumSizes(schema, n) == IF n = 0 THEN 0 ELSE SumSizes(schema, n - 1) + size(schema[n])

IndexOf(schema, col) == CHOOSE k \in 1..Len(schema) : schema[k] = col

\* Column::offset: the prefix sum of the widths declared before col
Offsets == [col \in {Columns[k] : k \in 1..Len(Columns)} |->
               SumSizes(Columns, IndexOf(Columns, col) - 1)]

offset(col) == Offsets[col]

COLUMNS_NUM == SumSizes(Columns, Len(Columns))

PREPROCESSED_COLUMNS_NUM == SumSizes(PreprocessedColumns, Len(PreprocessedColumns))

PROGRAM_COLUMNS_NUM == SumSizes(ProgramColumns, Len(ProgramColumns))

Cells == 0..(COLUMNS_NUM - 1)

ColumnSet == {Columns[k] : k \in 1..Len(Columns)}

\* the cells of a column group
CellsOf(col) == offset(col)..(offset(col) + size(col) - 1)

(***************************************************************************)
(* Trace table.                                                            *)
(***************************************************************************)
\* Traces::new: COLUMNS_NUM zeroed columns
TracesNew == [c \in Cells |-> [r \in Rows |-> 0]]

\* Traces::column::<N>: panics unless N is the column's size
ColumnPanics(N, col) == size(col) # N

column(t, row, col) == [i \in 0..(size(col) - 1) |-> t[offset(col) + i][row]]

\* cells off..off+n-1 of row take value[0..n-1], one store after the other
RECURSIVE StoreCells(_, _, _, _, _)
StoreCells(t, row, off, value, n) ==
    IF n = 0 THEN t
    ELSE [StoreCells(t, row, off, value, n - 1) EXCEPT ![off + n - 1][row] = value[n - 1]]

\* Traces::column_mut::<N> followed by a store through each of the N handles:
\* handle i is cell row of the i-th column from offset(col) on
column_mut_store(t, row, col, value) ==
    StoreCells(t, row, offset(col), value, size(col))

\* mutant: the length of the slice is not compared with the size of the column
FillColumnsPanicsNever(value, col) == FALSE

\* Traces::fill_columns_basefield: value is a function over 0..n-1
FillColumnsPanics(value, col) == size(col) # Cardinality(DOMAIN value)

fill_columns_basefield(t, row, value, col) ==
    StoreCells(t, row, offset(col), value, Cardinality(DOMAIN value))

\* Traces::fill_columns_bytes / fill_columns of a word of bytes
fill_columns_bytes(t, row, bytes, col) ==
    fill_columns_basefield(t, row, [i \in DOMAIN bytes |-> FromU32(bytes[i])], col)

\* Traces::fill_columns of a bool
fill_columns_bool(t, row, b, col) ==
    fill_columns_basefield(t, row, [i \in {0} |-> IF b THEN 1 ELSE 0], col)

(***************************************************************************)
(* Program-step view.  A word is a function from the limbs to bytes; the   *)
(* result of a step is <<w>> (Some(w)) or <<>> (None).                     *)
(***************************************************************************)
AddOpcodes == {"ADD", "ADDI"}

Opcodes == AddOpcodes \cup {"SUB"}

ZeroWord == [i \in Limbs |-> 0]

\* the two 16-bit halves of a word of bytes; a word is handled by halves so
\* that no intermediate value exceeds 2^31 - 1
Lo(w) == w[0] + 256 * w[1]

Hi(w) == w[2] + 256 * w[3]

SumLo(b, c) == Lo(b) + Lo(c)

SumHi(b, c) == Hi(b) + Hi(c) + (SumLo(b, c) \div 65536)

\* the overflow bit floor((b + c) / 2^32)
Overflow(b, c) == SumHi(b, c) \div 65536

HalvesToWord(lo, hi) ==
    [i \in Limbs |->
        IF i = 0 THEN lo % 256
        ELSE IF i = 1 THEN (lo \div 256) % 256
        ELSE IF i = 2 THEN hi % 256
        ELSE (hi \div 256) % 256]

\* the architectural result the VM records for ADD/ADDI: (b + c) mod 2^32
WrappingAdd(b, c) == HalvesToWord(SumLo(b, c) % 65536, SumHi(b, c) % 65536)

ProgramStep(op, b, c, res, x0) ==
    [opcode |-> op, value_b |-> b, value_c |-> c, result |-> res, rd_is_x0 |-> x0]

NoStep == ProgramStep("NONE", ZeroWord, ZeroWord, <<>>, FALSE)

(***************************************************************************)
(* AddChip.                                                                *)
(***************************************************************************)
\* mutant: the carry is taken one too late
OverflowingAddLate(a, b) == [sum |-> (a + b) % 256, carry |-> (a + b) > 256]

\* u8::overflowing_add
OverflowingAdd(a, b) == [sum |-> (a + b) % 256, carry |-> (a + b) >= 256]

\* mutant: a carry only when both additions overflow
CarryAnd(c1, c2) == c1 /\ c2

\* carry[i] = c1 || c2
CarryOr(c1, c2) == c1 \/ c2

\* mutant: the carry of the second addition is dropped
LimbStepFirstCarry(b, c, prev) ==
    LET r1 == OverflowingAdd(b, IF prev THEN 1 ELSE 0)
        r2 == OverflowingAdd(r1.sum, c)
    IN  [sum |-> r2.sum, c1 |-> r1.carry, c2 |-> r2.carry, carry |-> r1.carry]

\* one pass of the loop of AddChip::execute: the bytes b and c of a limb and
\* the carry prev of the limb before it
LimbStep(b, c, prev) ==
    LET r1 == OverflowingAdd(b, IF prev THEN 1 ELSE 0)
        r2 == OverflowingAdd(r1.sum, c)
    IN  [sum |-> r2.sum, c1 |-> r1.carry, c2 |-> r2.carry,
         carry |-> CarryOr(r1.carry, r2.carry)]

\* step 2 of AddChip::execute: [sum, carry] of limb i
RECURSIVE LimbAdd(_, _, _)
LimbAdd(value_b, value_c, i) ==
    IF i = 0
    THEN OverflowingAdd(value_b[0], value_c[0])
    ELSE LET s == LimbStep(value_b[i], value_c[i],
                           LimbAdd(value_b, value_c, i - 1).carry)
         IN  [sum |-> s.sum, carry |-> s.carry]

SumBytes(step) == [i \in Limbs |-> LimbAdd(step.value_b, step.value_c, i).sum]

\* mutant: the recomputed bytes are not compared with the result
ExecutePanicsNoResult(step) == step.result = <<>>

\* AddChip::execute panics when the step has no result, or when the
\* recomputed bytes differ from it
ExecutePanics(step) ==
    \/ step.result = <<>>
    \/ SumBytes(step) # step.result[1]

execute(step) ==
    [carry_bits |-> [i \in Limbs |->
                        IF LimbAdd(step.value_b, step.value_c, i).carry THEN 1 ELSE 0],
     sum_bytes |-> SumBytes(step),
     rd_is_x0 |-> step.rd_is_x0]

\* mutant: ValueAEffective is written without looking at rd_is_x0
AddChipWritesNoX0(t, row, r) ==
    LET t1 == column_mut_store(t, row, "ValueA",
                  [i \in Limbs |-> FromU32(r.sum_bytes[i])])
        t2 == column_mut_store(t1, row, "ValueAEffective",
                  [i \in Limbs |-> FromU32(r.sum_bytes[i])])
    IN  column_mut_store(t2, row, "CarryFlag",
                  [i \in Limbs |-> FromU32(r.carry_bits[i])])

\* the three writes of AddChip::fill_main_trace after execute has returned
AddChipWrites(t, row, r) ==
    LET t1 == column_mut_store(t, row, "ValueA",
                  [i \in Limbs |-> FromU32(r.sum_bytes[i])])
        t2 == column_mut_store(t1, row, "ValueAEffective",
                  [i \in Limbs |-> IF r.rd_is_x0 THEN 0 ELSE FromU32(r.sum_bytes[i])])
    IN  column_mut_store(t2, row, "CarryFlag",
                  [i \in Limbs |-> FromU32(r.carry_bits[i])])

\* mutant: the opcode of the step is not looked at
fill_main_trace_any_opcode(t, row, step) == AddChipWrites(t, row, execute(step))

\* mutant: the row after row_idx is written
fill_main_trace_next_row(t, row, step) ==
    IF step.opcode \notin AddOpcodes THEN t
    ELSE AddChipWrites(t, (row + 1) % NumRows, execute(step))

\* mutant: the operands are read back from the row, not taken from the step
fill_main_trace_from_row(t, row, step) ==
    IF step.opcode \notin AddOpcodes THEN t
    ELSE AddChipWrites(t, row,
             execute([step EXCEPT !.value_b = column(t, row, "ValueB"),
                                  !.value_c = column(t, row, "ValueC")]))

\* AddChip::fill_main_trace on a step that does not abort
fill_main_trace(t, row, step) ==
    IF step.opcode \notin AddOpcodes THEN t
    ELSE AddChipWrites(t, row, execute(step))

\* CpuChip::fill_main_trace: the opcode selector and the operands
cpu_fill_main_trace(t, row, step) ==
    LET t1 == fill_columns_bool(t, row, step.opcode \in AddOpcodes, "IsAdd")
        t2 == fill_columns_bytes(t1, row, step.value_b, "ValueB")
    IN  fill_columns_bytes(t2, row, step.value_c, "ValueC")

(***************************************************************************)
(* Row evaluator.  An evaluator in assertion mode stands at one row of the *)
(* trace; it hands out the masks of each interaction column by column and  *)
(* logs every request.                                                     *)
(***************************************************************************)
Interactions == {PREPROCESSED_TRACE_IDX, ORIGINAL_TRACE_IDX, PROGRAM_TRACE_IDX}

\* the preprocessed trace: IsFirst marks row 0
PreprocessedCell(c, r) == IF r = 0 THEN 1 ELSE 0

\* the program trace
ProgramCell(c, r) == 0

AssertEvaluator(r) ==
    [row |-> r, next_col |-> [k \in Interactions |-> 0], log |-> <<>>]

TraceCell(t, interaction, c, r) ==
    IF interaction = ORIGINAL_TRACE_IDX THEN t[c][r]
    ELSE IF interaction = PREPROCESSED_TRACE_IDX THEN PreprocessedCell(c, r)
    ELSE ProgramCell(c, r)

\* the cells of column c at the rows row + offsets[1..n], modulo the number of
\* rows
RECURSIVE MaskAt(_, _, _, _, _, _)
MaskAt(t, interaction, c, row, offsets, n) ==
    IF n = 0 THEN <<>>
    ELSE Append(MaskAt(t, interaction, c, row, offsets, n - 1),
                TraceCell(t, interaction, c, (row + offsets[n]) % NumRows))

\* EvalAtRow::next_interaction_mask: the next column of the interaction at
\* the given row offsets (rows taken modulo the number of rows)
next_interaction_mask(t, ev, interaction, offsets) ==
    LET c == ev.next_col[interaction]
    IN  [ev |-> [ev EXCEPT !.next_col[interaction] = c + 1,
                           !.log = Append(ev.log,
                               [interaction |-> interaction, col |-> c,
                                offsets |-> offsets])],
         mask |-> MaskAt(t, interaction, c, ev.row, offsets, Len(offsets))]

\* std::iter::repeat_with(|| eval.next_interaction_mask(..)).take(n).collect()
RECURSIVE RepeatTake(_, _, _, _, _)
RepeatTake(t, ev, interaction, offsets, n) ==
    IF n = 0 THEN [ev |-> ev, masks |-> <<>>]
    ELSE LET head == RepeatTake(t, ev, interaction, offsets, n - 1)
             m == next_interaction_mask(t, head.ev, interaction, offsets)
         IN  [ev |-> m.ev, masks |-> Append(head.masks, m.mask)]

\* mutant: the program masks are requested before the preprocessed ones
TraceEvalNewProgramFirst(t, ev) ==
    LET e == RepeatTake(t, ev, ORIGINAL_TRACE_IDX, <<0, 1>>, COLUMNS_NUM)
        g == RepeatTake(t, e.ev, PROGRAM_TRACE_IDX, <<0>>, PROGRAM_COLUMNS_NUM)
        p == RepeatTake(t, g.ev, PREPROCESSED_TRACE_IDX, <<0, 1>>,
                        PREPROCESSED_COLUMNS_NUM)
    IN  [ev |-> p.ev,
         trace_eval |-> [evals |-> e.masks,
                         preprocessed_evals |-> p.masks,
                         program_evals |-> g.masks]]

\* TraceEval::new
TraceEvalNew(t, ev) ==
    LET e == RepeatTake(t, ev, ORIGINAL_TRACE_IDX, <<0, 1>>, COLUMNS_NUM)
        p == RepeatTake(t, e.ev, PREPROCESSED_TRACE_IDX, <<0, 1>>,
                        PREPROCESSED_COLUMNS_NUM)
        g == RepeatTake(t, p.ev, PROGRAM_TRACE_IDX, <<0>>, PROGRAM_COLUMNS_NUM)
    IN  [ev |-> g.ev,
         trace_eval |-> [evals |-> e.masks,
                         preprocessed_evals |-> p.masks,
                         program_evals |-> g.masks]]

\* the assertion of TraceEval::column_eval::<N> and of the four reads after it
ColumnEvalPanics(N, col) == size(col) # N

\* TraceEval::column_eval
column_eval(trace_eval, col) ==
    [i \in 0..(size(col) - 1) |-> trace_eval.evals[offset(col) + i + 1][1]]

\* TraceEval::column_eval_next_row
column_eval_next_row(trace_eval, col) ==
    [i \in 0..(size(col) - 1) |-> trace_eval.evals[offset(col) + i + 1][2]]

\* mutant: the carry of the previous limb is left out
AddConstraintNoCarryIn(is_add, rd_val, rs1_val, rs2_val, carry_flag, i) ==
    FMul(is_add,
         FSub(FAdd(rd_val[i], FMul(carry_flag[i], modulus)),
              FAdd(rs1_val[i], rs2_val[i])))

\* mutant: the constraint is not multiplied by the selector
AddConstraintNoSelector(is_add, rd_val, rs1_val, rs2_val, carry_flag, i) ==
    LET carry == IF i = 0 THEN 0 ELSE carry_flag[i - 1]
    IN  FSub(FAdd(rd_val[i], FMul(carry_flag[i], modulus)),
             FAdd(FAdd(rs1_val[i], rs2_val[i]), carry))

\* the constraint AddChip::add_constraints emits for limb i
AddConstraint(is_add, rd_val, rs1_val, rs2_val, carry_flag, i) ==
    LET carry == IF i = 0 THEN 0 ELSE carry_flag[i - 1]
    IN  FMul(is_add,
             FSub(FAdd(rd_val[i], FMul(carry_flag[i], modulus)),
                  FAdd(FAdd(rs1_val[i], rs2_val[i]), carry)))

\* mutant: the destination value is read from ValueAEffective
add_constraints_effective(trace_eval) ==
    LET is_add == column_eval(trace_eval, "IsAdd")[0]
        carry_flag == column_eval(trace_eval, "CarryFlag")
        rs1_val == column_eval(trace_eval, "ValueB")
        rs2_val == column_eval(trace_eval, "ValueC")
        rd_val == column_eval(trace_eval, "ValueAEffective")
    IN  [k \in 1..WORD_SIZE |->
            AddConstraint(is_add, rd_val, rs1_val, rs2_val, carry_flag, k - 1)]

\* AddChip::add_constraints: the residuals of the WORD_SIZE constraints, in
\* the order of emission
add_constraints(trace_eval) ==
    LET is_add == column_eval(trace_eval, "IsAdd")[0]
        carry_flag == column_eval(trace_eval, "CarryFlag")
        rs1_val == column_eval(trace_eval, "ValueB")
        rs2_val == column_eval(trace_eval, "ValueC")
        rd_val == column_eval(trace_eval, "ValueA")
    IN  [k \in 1..WORD_SIZE |->
            AddConstraint(is_add, rd_val, rs1_val, rs2_val, carry_flag, k - 1)]

\* one row of the self-check: a fresh evaluator at row r, a TraceEval built
\* over it, and the constraints evaluated on the row
EvalRow(t, r) ==
    LET n == TraceEvalNew(t, AssertEvaluator(r))
    IN  [log |-> n.ev.log, residuals |-> add_constraints(n.trace_eval)]

\* the residuals of the ADD constraints on row r
Residuals(t, r) == EvalRow(t, r).residuals

\* Traces::assert_as_original_trace from row r on: the first constraint that
\* is not zero halts it; logs holds the mask requests of each row visited
RECURSIVE AssertFrom(_, _)
AssertFrom(t, r) ==
    IF r = NumRows THEN [report |-> <<>>, logs |-> <<>>]
    ELSE LET e == EvalRow(t, r)
             bad == {k \in 1..WORD_SIZE : e.residuals[k] # 0}
         IN  IF bad # {}
             THEN LET k == CHOOSE x \in bad : \A y \in bad : x <= y
                  IN  [report |-> <<[row |-> r, constraint |-> k - 1,
                                     residual |-> e.residuals[k]]>>,
                       logs |-> <<e.log>>]
             ELSE LET rest == AssertFrom(t, r + 1)
                  IN  [report |-> rest.report, logs |-> <<e.log>> \o rest.logs]

assert_as_original_trace(t) == AssertFrom(t, 0)

\* Traces::fill_effective_columns: the build is "debug" or "release"
FillEffectivePanics(build, src, dst, selector) ==
    \/ build = "debug" /\ size(src) # size(dst)
    \/ ColumnPanics(WORD_SIZE, src)
    \/ ColumnPanics(1, selector)
    \/ ColumnPanics(WORD_SIZE, dst)

\* mutant: the test of the selector is inverted
fill_effective_columns_inverted(t, row, src, dst, selector) ==
    LET src_v == column(t, row, src)
        sel == column(t, row, selector)[0]
    IN  IF sel # 0
        THEN column_mut_store(t, row, dst, [i \in Limbs |-> 0])
        ELSE column_mut_store(t, row, dst, [i \in 0..(size(dst) - 1) |-> src_v[i]])

fill_effective_columns(t, row, src, dst, selector) ==
    LET src_v == column(t, row, src)
        sel == column(t, row, selector)[0]
    IN  IF sel = 0
        THEN column_mut_store(t, row, dst, [i \in Limbs |-> 0])
        ELSE column_mut_store(t, row, dst, [i \in 0..(size(dst) - 1) |-> src_v[i]])

(***************************************************************************)
(* Evaluation pipeline.  A column is a function from 0..n-1 to the field.  *)
(***************************************************************************)
RECURSIVE Pow2(_)
Pow2(n) == IF n = 0 THEN 1 ELSE 2 * Pow2(n - 1)

\* index i of log bits with its bits in reverse order
RECURSIVE BitRev(_, _)
BitRev(i, log) ==
    IF log = 0 THEN 0
    ELSE (i % 2) * Pow2(log - 1) + BitRev(i \div 2, log - 1)

\* utils::coset_order_to_circle_domain_order: (a[0], a[n-1], a[1], a[n-2], ..)
coset_order_to_circle_domain_order(a) ==
    LET n == Cardinality(DOMAIN a)
    IN  [k \in 0..(n - 1) |->
            IF k % 2 = 0 THEN a[k \div 2] ELSE a[n - 1 - (k \div 2)]]

\* utils::bit_reverse of a column of 2^log cells: cell i and cell
\* BitRev(i, log) change places
bit_reverse(v, log) == [i \in DOMAIN v |-> v[BitRev(i, log)]]

\* mutant: the columns are handed over in trace order
circle_evaluation_trace_order(t, log) == [c \in DOMAIN t |-> t[c]]

\* Traces::circle_evaluation: the values of the evaluation of every column
circle_evaluation(t, log) ==
    [c \in DOMAIN t |-> bit_reverse(coset_order_to_circle_domain_order(t[c]), log)]

\* Traces::get_base_column::<N>: the N columns from offset(col) on
get_base_column(t, log, col, N) ==
    [i \in 0..(N - 1) |->
        bit_reverse(coset_order_to_circle_domain_order(t[offset(col) + i]), log)]

(***************************************************************************)
(* Inputs.                                                                 *)
(***************************************************************************)
Word(b0, b1, b2, b3) == [i \in Limbs |-> <<b0, b1, b2, b3>>[i + 1]]

\* a recorded result that differs from w in its first limb
WrongWord(w) == [w EXCEPT ![0] = (w[0] + 1) % 256]

\* operands of the steps of the harness
HarnessB == {Word(1, 0, 0, 0), Word(250, 0, 0, 0), Word(255, 255, 255, 255)}

HarnessC == {Word(10, 0, 0, 0)}

\* the steps of the harness: the recorded result is the sum, is absent, or
\* differs from the sum
HarnessSteps ==
    UNION {{ProgramStep(op, b, c, res, x0) :
               res \in {<<WrappingAdd(b, c)>>, <<>>, <<WrongWord(WrappingAdd(b, c))>>}} :
           op \in Opcodes, b \in HarnessB, c \in HarnessC, x0 \in BOOLEAN}

\* the steps of SpecAdd: every pair of words over the limbs below, the
\* recorded result being the sum
BLimbs == (0..MaxSmallLimb) \cup {255}

CLimbs == {0, 1, 255}

AddSteps ==
    {ProgramStep(op, b, c, <<WrappingAdd(b, c)>>, x0) :
        op \in Opcodes, b \in [Limbs -> BLimbs], c \in [Limbs -> CLimbs],
        x0 \in BOOLEAN}

\* the column groups AddChip::fill_main_trace writes
AddChipColumns == {"ValueA", "ValueAEffective", "CarryFlag"}

\* the fillers run on a row next to the ADD chip: the CPU chip, and
\* fill_effective_columns from src to dst under sel
OtherFillers ==
    {[name |-> "cpu", src |-> "", dst |-> "", sel |-> ""]} \cup
    {[name |-> "effective", src |-> src, dst |-> dst, sel |-> sel] :
        src \in {"ValueA", "ValueC"}, dst \in {"ValueB", "ValueAEffective"},
        sel \in {"IsAdd"}}

\* the column groups a filler writes, and those of the trace it reads
OtherWrites(f) == IF f.name = "cpu" THEN {"IsAdd", "ValueB", "ValueC"} ELSE {f.dst}

OtherReads(f) == IF f.name = "cpu" THEN {} ELSE {f.src, f.sel}

OtherFill(t, row, step, f) ==
    IF f.name = "cpu" THEN cpu_fill_main_trace(t, row, step)
    ELSE fill_effective_columns(t, row, f.src, f.dst, f.sel)

\* the orders the two fillers are run in on a row; in the last one the ADD
\* chip alone runs twice
FillOrders == {"other_add", "add_other", "add_add"}

\* the traces the fillers of SpecOrder find: a fresh one, and one whose cells
\* all hold the same value
OrderTraces == {TracesNew} \cup {[c \in Cells |-> [r \in Rows |-> v]] : v \in {1, 200}}

\* the access sites of SpecAccess, the widths they are called with, and the
\* columns of the schema each of them takes
TraceSites == {"column", "column_mut", "fill_columns", "fill_columns_bytes",
               "fill_columns_basefield", "get_base_column"}

EvalSites == {"column_eval", "column_eval_next_row"}

PreprocessedEvalSites == {"preprocessed_column_eval", "preprocessed_column_eval_next_row"}

ProgramEvalSites == {"program_column_eval"}

AccessSites == TraceSites \cup EvalSites \cup PreprocessedEvalSites \cup ProgramEvalSites

AccessWidths == {1, 2, WORD_SIZE}

SiteColumns(site) ==
    IF site \in PreprocessedEvalSites
    THEN {PreprocessedColumns[k] : k \in 1..Len(PreprocessedColumns)}
    ELSE IF site \in ProgramEvalSites
    THEN {ProgramColumns[k] : k \in 1..Len(ProgramColumns)}
    ELSE ColumnSet

\* the N values a caller stores
AccessValue(N) == [i \in 0..(N - 1) |-> 255 - i]

\* the assertion each site starts with
AccessPanics(site, N, col) ==
    IF site \in {"column", "column_mut", "get_base_column"}
    THEN ColumnPanics(N, col)
    ELSE IF site \in {"fill_columns", "fill_columns_bytes", "fill_columns_basefield"}
    THEN FillColumnsPanics(AccessValue(N), col)
    ELSE ColumnEvalPanics(N, col)

\* the trace after a call of the site that did not abort
AccessEffect(site, t, row, col, N) ==
    IF site = "column_mut" THEN column_mut_store(t, row, col, AccessValue(N))
    ELSE IF site \in {"fill_columns", "fill_columns_basefield"}
    THEN fill_columns_basefield(t, row, AccessValue(N), col)
    ELSE IF site = "fill_columns_bytes"
    THEN fill_columns_bytes(t, row, AccessValue(N), col)
    ELSE t

\* the steps of SpecLimb: limb i holds two bytes, the limb before it sends a
\* carry or none, every other limb is zero; limb 1 holds every pair over
\* bytes, the limbs after it the pairs of EdgeBytes
Bytes == 0..255

EdgeBytes == {0, 1, 127, 128, 254, 255}

LimbWord(i, x, prev) ==
    [j \in Limbs |-> IF j = i THEN x ELSE IF j = i - 1 THEN prev ELSE 0]

LimbSteps(bytes) ==
    {ProgramStep("ADD", LimbWord(i, b, 255 * k), LimbWord(i, c, k),
                 <<WrappingAdd(LimbWord(i, b, 255 * k), LimbWord(i, c, k))>>, FALSE) :
        i \in {1}, b \in bytes, c \in bytes, k \in {0, 1}}
    \cup
    {ProgramStep("ADD", LimbWord(i, b, 255 * k), LimbWord(i, c, k),
                 <<WrappingAdd(LimbWord(i, b, 255 * k), LimbWord(i, c, k))>>, FALSE) :
        i \in 2..(WORD_SIZE - 1), b \in EdgeBytes, c \in EdgeBytes, k \in {0, 1}}

\* field values a cell is overwritten with
CorruptVals == {0, 256, P - 1}

\* the columns fill_effective_columns is called with
EffectiveSrc == {"ValueA", "ValueB", "IsAdd"}

EffectiveDst == {"ValueAEffective", "ValueB", "IsAdd"}

EffectiveSel == {"IsAdd", "CarryFlag"}

\* the row contents of SpecRow: words inside and outside the byte range
RowIsAdd == {0, 1}

RowValueA == [Limbs -> {0, 1}] \cup
             {Word(255, 0, 0, 0), Word(0, 0, 0, 255), Word(1, 0, 0, 255),
              Word(255, 255, 255, 255), Word(256, 0, 0, 0), Word(P - 1, 2, 0, 300)}

RowValueB == {ZeroWord, Word(255, 0, 0, 0), Word(0, 0, 0, 255),
              Word(255, 255, 255, 255), Word(0, 256, P - 1, 0)}

RowValueC == {ZeroWord, Word(1, 0, 0, 0), Word(P - 1, 0, 0, 256)}

RowCarryFlag == [Limbs -> {0, 1}] \cup {Word(2, 0, 0, 0), Word(0, P - 1, 0, 1)}

\* the rows of the trace of SpecCircle, 2^log_size of them
CircleRows == 0..(Pow2(LogSize) - 1)

\* the cells of SpecCircle whose column takes every content over CircleVals
CircleCells == {offset("ValueA"), offset("CarryFlag") + WORD_SIZE - 1}

CircleVals == {0, 1, P - 1}

\* the widths get_base_column is called with
CircleWidths == {1, WORD_SIZE}

\* a trace of 2^log_size rows: column c0 holds f, every other cell holds a
\* value of its own
CircleTrace(c0, f) ==
    [c \in Cells |->
        IF c = c0 THEN f ELSE [r \in CircleRows |-> c * Pow2(LogSize) + r + 2]]

\* the trace whose row 0 holds the given content, written cell group by
\* cell group into a fresh trace
RowTrace(is_add, a, b, c, k) ==
    LET t1 == fill_columns_basefield(TracesNew, 0, [i \in {0} |-> is_add], "IsAdd")
        t2 == fill_columns_basefield(t1, 0, a, "ValueA")
        t3 == fill_columns_basefield(t2, 0, b, "ValueB")
        t4 == fill_columns_basefield(t3, 0, c, "ValueC")
    IN  fill_columns_basefield(t4, 0, k, "CarryFlag")

(***************************************************************************)
(* State machine.                                                          *)
(*   traces   the trace table, traces[cell][row]                           *)
(*   row_idx  the row the next step fills                                  *)
(*   pc       "cpu": between steps; "add": the CPU chip has filled row     *)
(*            row_idx and the ADD chip has not; "frozen": a call on the    *)
(*            filled trace has been made; "checked": the self-check has    *)
(*            run; "panicked": a call has aborted                          *)
(*   cur      the program step of the row being filled                     *)
(*   call     the call made on the filled trace, if any                    *)
(*   report   the violation the self-check reported, <<>> if none          *)
(*   maskLog  the mask requests of each row the self-check visited         *)
(***************************************************************************)
NoCall == [op |-> "none", build |-> "", filler |-> "", row |-> 0, src |-> "",
           dst |-> "", sel |-> "", width |-> 0, limb |-> 0, value |-> 0]

\* no column has been handed to the commitment sink
NoEvals == [op |-> "none", col |-> "", cols |-> <<>>]

Init ==
    /\ traces = TracesNew
    /\ row_idx = 0
    /\ pc = "cpu"
    /\ cur = NoStep
    /\ call = NoCall
    /\ report = <<>>
    /\ maskLog = <<>>
    /\ evals = NoEvals

\* CpuChip::fill_main_trace(&mut traces, row_idx, &program_step), for the next
\* step of the program, one of steps
CpuFill(steps) ==
    /\ pc = "cpu"
    /\ row_idx < NumRows
    /\ \E step \in steps :
          /\ traces' = cpu_fill_main_trace(traces, row_idx, step)
          /\ cur' = step
    /\ pc' = "add"
    /\ UNCHANGED <<row_idx, call, report, maskLog, evals>>

\* AddChip::fill_main_trace(&mut traces, row_idx, &program_step); row_idx += 1
AddFill ==
    /\ pc = "add"
    /\ IF cur.opcode \in AddOpcodes /\ ExecutePanics(cur)
       THEN /\ pc' = "panicked"
            /\ UNCHANGED <<traces, row_idx, cur>>
       ELSE /\ traces' = fill_main_trace(traces, row_idx, cur)
            /\ row_idx' = row_idx + 1
            /\ cur' = NoStep
            /\ pc' = "cpu"
    /\ UNCHANGED <<call, report, maskLog, evals>>

\* one cell of ValueA of the filled trace is overwritten with another value
Corrupt ==
    /\ pc = "cpu"
    /\ \E row \in Rows, limb \in Limbs, v \in CorruptVals :
          /\ v # column(traces, row, "ValueA")[limb]
          /\ traces' = column_mut_store(traces, row, "ValueA",
                            [column(traces, row, "ValueA") EXCEPT ![limb] = v])
          /\ call' = [NoCall EXCEPT !.op = "corrupt", !.row = row, !.limb = limb,
                                    !.value = v]
    /\ pc' = "frozen"
    /\ UNCHANGED <<row_idx, cur, report, maskLog, evals>>

\* traces.fill_effective_columns(row, src, dst, selector), in a debug or a
\* release build
FillEffective ==
    /\ pc = "cpu"
    /\ \E build \in {"debug", "release"}, row \in Rows,
          src \in EffectiveSrc, dst \in EffectiveDst, selector \in EffectiveSel :
          /\ call' = [NoCall EXCEPT !.op = "fill_effective", !.build = build,
                                    !.row = row, !.src = src, !.dst = dst,
                                    !.sel = selector]
          /\ IF FillEffectivePanics(build, src, dst, selector)
             THEN /\ pc' = "panicked"
                  /\ UNCHANGED traces
             ELSE /\ traces' = fill_effective_columns(traces, row, src, dst, selector)
                  /\ pc' = "frozen"
    /\ UNCHANGED <<row_idx, cur, report, maskLog, evals>>

\* traces.assert_as_original_trace(|eval, trace_eval| AddChip::add_constraints(..))
SelfCheck ==
    /\ pc \in {"cpu", "frozen"}
    /\ LET res == assert_as_original_trace(traces)
       IN  /\ report' = res.report
           /\ maskLog' = res.logs
    /\ pc' = "checked"
    /\ UNCHANGED <<traces, row_idx, cur, call, evals>>

Next ==
    \/ CpuFill(HarnessSteps)
    \/ AddFill
    \/ Corrupt
    \/ FillEffective
    \/ SelfCheck

Spec == Init /\ [][Next]_vars

\* one step over every pair of operand words of AddSteps
NextAdd ==
    \/ row_idx = 0 /\ CpuFill(AddSteps)
    \/ AddFill

SpecAdd == Init /\ [][NextAdd]_vars

\* a trace whose row 0 holds arbitrary content, handed to the self-check
InitRow ==
    /\ \E is_add \in RowIsAdd, a \in RowValueA, b \in RowValueB,
          c \in RowValueC, k \in RowCarryFlag :
          traces = RowTrace(is_add, a, b, c, k)
    /\ row_idx = 0
    /\ pc = "cpu"
    /\ cur = NoStep
    /\ call = NoCall
    /\ report = <<>>
    /\ maskLog = <<>>
    /\ evals = NoEvals

NextRow == SelfCheck

SpecRow == InitRow /\ [][NextRow]_vars

\* a call of one access site of the trace or of the row evaluator with a
\* column and a width N, in a debug or a release build
Access ==
    /\ pc = "cpu"
    /\ \E build \in {"debug", "release"}, site \in AccessSites, row \in Rows,
          N \in AccessWidths :
          \E col \in SiteColumns(site) :
             /\ call' = [NoCall EXCEPT !.op = site, !.build = build, !.row = row,
                                       !.src = col, !.width = N]
             /\ IF AccessPanics(site, N, col)
                THEN /\ pc' = "panicked"
                     /\ UNCHANGED traces
                ELSE /\ traces' = AccessEffect(site, traces, row, col, N)
                     /\ pc' = "frozen"
    /\ UNCHANGED <<row_idx, cur, report, maskLog, evals>>

\* one row filled, then one call of an access site
NextAccess ==
    \/ row_idx = 0 /\ CpuFill(HarnessSteps)
    \/ AddFill
    \/ Access
    \/ FillEffective

SpecAccess == Init /\ [][NextAccess]_vars

\* the trace a filler of SpecOrder finds
InitOrder ==
    /\ traces \in OrderTraces
    /\ row_idx = 0
    /\ pc = "cpu"
    /\ cur = NoStep
    /\ call = NoCall
    /\ report = <<>>
    /\ maskLog = <<>>
    /\ evals = NoEvals

\* the body of the loop of the test on one row and one step, the two fillers
\* being run in either order, or the ADD chip twice; the ADD chip aborts on a
\* step it cannot execute, after the fillers run before it
OrderedFill ==
    /\ pc = "cpu"
    /\ row_idx = 0
    /\ \E step \in HarnessSteps, row \in Rows, f \in OtherFillers,
          order \in FillOrders :
          /\ cur' = step
          /\ call' = [NoCall EXCEPT !.op = order, !.filler = f.name, !.row = row,
                                    !.src = f.src, !.dst = f.dst, !.sel = f.sel]
          /\ IF step.opcode \in AddOpcodes /\ ExecutePanics(step)
             THEN /\ pc' = "panicked"
                  /\ row_idx' = row_idx
                  /\ traces' = IF order = "other_add"
                               THEN OtherFill(traces, row, step, f)
                               ELSE traces
             ELSE /\ pc' = "cpu"
                  /\ row_idx' = row_idx + 1
                  /\ traces' =
                        IF order = "other_add"
                        THEN fill_main_trace(OtherFill(traces, row, step, f), row, step)
                        ELSE IF order = "add_other"
                        THEN OtherFill(fill_main_trace(traces, row, step), row, step, f)
                        ELSE fill_main_trace(fill_main_trace(traces, row, step),
                                             row, step)
    /\ UNCHANGED <<report, maskLog, evals>>

NextOrder == OrderedFill

SpecOrder == InitOrder /\ [][NextOrder]_vars

\* one ADD step over every pair of bytes of a limb and both carries into it
NextLimb ==
    \/ row_idx = 0 /\ CpuFill(LimbSteps(Bytes))
    \/ AddFill

SpecLimb == Init /\ [][NextLimb]_vars

\* a frozen trace of 2^LogSize rows, handed to the evaluation pipeline
InitCircle ==
    /\ \E c0 \in CircleCells, f \in [CircleRows -> CircleVals] :
          traces = CircleTrace(c0, f)
    /\ row_idx = 0
    /\ pc = "cpu"
    /\ cur = NoStep
    /\ call = NoCall
    /\ report = <<>>
    /\ maskLog = <<>>
    /\ evals = NoEvals

\* traces.circle_evaluation()
CircleEvaluation ==
    /\ pc = "cpu"
    /\ evals' = [op |-> "circle_evaluation", col |-> "",
                 cols |-> circle_evaluation(traces, LogSize)]
    /\ pc' = "evaluated"
    /\ UNCHANGED <<traces, row_idx, cur, call, report, maskLog>>

\* traces.get_base_column::<N>(col)
GetBaseColumn ==
    /\ pc = "cpu"
    /\ \E col \in ColumnSet, N \in CircleWidths :
          IF ColumnPanics(N, col)
          THEN /\ pc' = "panicked"
               /\ evals' = [NoEvals EXCEPT !.op = "get_base_column", !.col = col]
          ELSE /\ pc' = "evaluated"
               /\ evals' = [op |-> "get_base_column", col |-> col,
                            cols |-> get_base_column(traces, LogSize, col, N)]
    /\ UNCHANGED <<traces, row_idx, cur, call, report, maskLog>>

NextCircle ==
    \/ CircleEvaluation
    \/ GetBaseColumn

SpecCircle == InitCircle /\ [][NextCircle]_vars

(***************************************************************************)
(* Properties.                                                             *)
(***************************************************************************)
IsAddAt(t, r) == column(t, r, "IsAdd")[0]

IsByteWord(w) == \A i \in Limbs : w[i] <= 255

IsBitWord(w) == \A i \in Limbs : w[i] \in {0, 1}

AllZero(t, r, k) == Residuals(t, r)[k] = 0

\* the step of AddFill that fills row row_idx from an ADD/ADDI step
AddFillsRow == pc = "add" /\ cur.opcode \in AddOpcodes /\ pc' = "cpu"

\* C1: an ADD/ADDI step whose destination is not x0 and whose recorded result
\* is (B + C) mod 2^32, on a row that holds IsAdd = 1, ValueB = B and
\* ValueC = C, is filled by the ADD chip, and every one of the WORD_SIZE ADD
\* constraints then evaluates to zero on the row.
C1_AddCompleteness ==
    [][(/\ pc = "add"
        /\ cur.opcode \in AddOpcodes
        /\ ~cur.rd_is_x0
        /\ cur.result = <<WrappingAdd(cur.value_b, cur.value_c)>>
        /\ IsAddAt(traces, row_idx) = 1
        /\ column(traces, row_idx, "ValueB") = cur.value_b
        /\ column(traces, row_idx, "ValueC") = cur.value_c)
       => /\ pc' = "cpu"
          /\ \A k \in 1..WORD_SIZE : AllZero(traces', row_idx, k)]_vars

C1_Witness ==
    /\ pc = "cpu"
    /\ row_idx = 1
    /\ IsAddAt(traces, 0) = 1
    /\ column(traces, 0, "ValueB") = Word(255, 1, 0, 0)
    /\ column(traces, 0, "ValueC") = Word(1, 0, 0, 0)
    /\ column(traces, 0, "ValueA") = Word(0, 2, 0, 0)
    /\ column(traces, 0, "ValueAEffective") = Word(0, 2, 0, 0)
    /\ column(traces, 0, "CarryFlag") = Word(1, 0, 0, 0)

\* C2: the ADD chip writes CarryFlag[W-1] = 1 and ValueA = (B + C) mod 2^32
\* when B + C overflows 32 bits, and CarryFlag[W-1] = 0 and ValueA = B + C
\* when it does not.
C2_AddOverflow ==
    [][AddFillsRow =>
        LET b == cur.value_b
            c == cur.value_c
            a == column(traces', row_idx, "ValueA")
            k == column(traces', row_idx, "CarryFlag")
        IN  /\ Overflow(b, c) \in {0, 1}
            /\ Overflow(b, c) = 1 =>
                  /\ k[WORD_SIZE - 1] = 1
                  /\ a = WrappingAdd(b, c)
            /\ Overflow(b, c) = 0 =>
                  /\ k[WORD_SIZE - 1] = 0
                  /\ a = HalvesToWord(SumLo(b, c) % 65536, SumHi(b, c))]_vars

C2_Witness ==
    /\ pc = "cpu"
    /\ row_idx = 1
    /\ column(traces, 0, "ValueB") = Word(255, 255, 255, 255)
    /\ column(traces, 0, "ValueC") = Word(1, 0, 0, 0)
    /\ column(traces, 0, "ValueA") = ZeroWord
    /\ column(traces, 0, "CarryFlag") = Word(1, 1, 1, 1)

\* C3: on a row with IsAdd = 1 whose limbs are bytes and whose carry flags
\* are bits, the W constraints all being zero (the self-check passes) forces
\* ValueA = (ValueB + ValueC) mod 2^32 and CarryFlag[W-1] = the overflow bit.
C3_ConstraintSoundness ==
    (pc = "checked" /\ report = <<>>) =>
        \A r \in Rows :
            LET a == column(traces, r, "ValueA")
                b == column(traces, r, "ValueB")
                c == column(traces, r, "ValueC")
                k == column(traces, r, "CarryFlag")
            IN  (/\ IsAddAt(traces, r) = 1
                 /\ IsByteWord(a) /\ IsByteWord(b) /\ IsByteWord(c)
                 /\ IsBitWord(k))
                => /\ a = WrappingAdd(b, c)
                   /\ k[WORD_SIZE - 1] = Overflow(b, c)

C3_Witness ==
    /\ pc = "checked"
    /\ report = <<>>
    /\ IsAddAt(traces, 0) = 1
    /\ column(traces, 0, "ValueB") = Word(255, 255, 255, 255)
    /\ column(traces, 0, "ValueC") = Word(1, 0, 0, 0)
    /\ column(traces, 0, "ValueA") = ZeroWord
    /\ column(traces, 0, "CarryFlag") = Word(1, 1, 1, 1)

\* C4: after the ADD chip fills row r from an ADD/ADDI step, ValueAEffective
\* is all zeros when rd_is_x0 (ValueA still holding the sum) and equals
\* ValueA limb for limb otherwise.
C4_X0Destination ==
    [][AddFillsRow =>
        LET a == column(traces', row_idx, "ValueA")
            e == column(traces', row_idx, "ValueAEffective")
        IN  /\ a = WrappingAdd(cur.value_b, cur.value_c)
            /\ cur.rd_is_x0 => e = ZeroWord
            /\ ~cur.rd_is_x0 => e = a]_vars

C4_Witness ==
    /\ pc = "cpu"
    /\ row_idx = 1
    /\ IsAddAt(traces, 0) = 1
    /\ column(traces, 0, "ValueA") = Word(0, 2, 0, 0)
    /\ column(traces, 0, "ValueAEffective") = ZeroWord

\* C5: on a row whose IsAdd cell is 0 every ADD constraint evaluates to
\* zero, whatever ValueA, ValueB, ValueC and CarryFlag hold, so that a trace
\* of such rows passes the self-check.
C5_SelectorGating ==
    pc = "checked" =>
        /\ \A r \in Rows :
              IsAddAt(traces, r) = 0 => \A k \in 1..WORD_SIZE : AllZero(traces, r, k)
        /\ (\A r \in Rows : IsAddAt(traces, r) = 0) => report = <<>>

C5_Witness ==
    /\ pc = "checked"
    /\ report = <<>>
    /\ IsAddAt(traces, 0) = 0
    /\ column(traces, 0, "ValueA") = Word(P - 1, 2, 0, 300)
    /\ column(traces, 0, "ValueB") = Word(0, 256, P - 1, 0)
    /\ column(traces, 0, "ValueC") = Word(P - 1, 0, 0, 256)
    /\ column(traces, 0, "CarryFlag") = Word(0, P - 1, 0, 1)

\* the violation rep is the first one in row-then-emission order, and its
\* residual is not zero
FirstOffending(rep) ==
    /\ rep.row \in Rows
    /\ rep.constraint \in Limbs
    /\ rep.residual # 0
    /\ Residuals(traces, rep.row)[rep.constraint + 1] = rep.residual
    /\ \A r \in Rows, k \in 1..WORD_SIZE :
          (r < rep.row \/ (r = rep.row /\ k - 1 < rep.constraint))
          => AllZero(traces, r, k)

\* the trace was filled from a sequence of ADD/ADDI steps
FilledFromAdds == row_idx >= 1 /\ \A r \in 0..(row_idx - 1) : IsAddAt(traces, r) = 1

\* C6, as claimed: after a trace filled from ADD/ADDI steps has any one cell
\* of ValueA overwritten with a different value, the self-check fails and
\* reports the first offending (row, constraint), with a non-zero residual.
C6_AnyCellDetected ==
    (pc = "checked" /\ call.op = "corrupt" /\ FilledFromAdds)
    => (report # <<>> /\ FirstOffending(report[1]))

\* C6, amended: the same for a cell of ValueA on a row that an ADD/ADDI step
\* filled; the violation reported is the constraint of the overwritten limb
\* on that row.
C6_FilledCellDetected ==
    (pc = "checked" /\ call.op = "corrupt" /\ FilledFromAdds /\ call.row < row_idx)
    => /\ report # <<>>
       /\ FirstOffending(report[1])
       /\ report[1].row = call.row
       /\ report[1].constraint = call.limb

C6_Witness ==
    /\ pc = "checked"
    /\ call.op = "corrupt"
    /\ row_idx = 2
    /\ FilledFromAdds
    /\ call.row = 1
    /\ call.limb = 1
    /\ call.value = P - 1
    /\ report # <<>>
    /\ report[1].row = 1

\* the cells the ADD chip owns
AddChipCells ==
    CellsOf("ValueA") \cup CellsOf("ValueAEffective") \cup CellsOf("CarryFlag")

\* C7: AddChip::fill_main_trace changes no cell for a step that is not ADD
\* or ADDI, and for ADD or ADDI changes only cells of ValueA,
\* ValueAEffective and CarryFlag at the row it is given.
C7_FillFrame ==
    [][pc = "add" =>
        IF cur.opcode \notin AddOpcodes
        THEN traces' = traces /\ pc' = "cpu"
        ELSE \A c \in Cells, r \in Rows :
                traces'[c][r] # traces[c][r] => (r = row_idx /\ c \in AddChipCells)]_vars

C7_Witness ==
    /\ pc = "cpu"
    /\ row_idx = 2
    /\ IsAddAt(traces, 0) = 0
    /\ column(traces, 0, "ValueB") = Word(250, 0, 0, 0)
    /\ column(traces, 0, "ValueA") = ZeroWord
    /\ IsAddAt(traces, 1) = 1
    /\ column(traces, 1, "ValueA") = Word(4, 1, 0, 0)
    /\ column(traces, 1, "CarryFlag") = Word(1, 0, 0, 0)

\* the effects of a call of fill_effective_columns that returned
EffectiveReturned == pc = "cpu" /\ call'.op = "fill_effective" /\ pc' = "frozen"

EffectiveDstFilled ==
    LET r == call'.row
    IN  IF column(traces, r, call'.sel)[0] = 0
        THEN column(traces', r, call'.dst) = ZeroWord
        ELSE column(traces', r, call'.dst) = column(traces, r, call'.src)

EffectiveOthersKept ==
    LET r == call'.row
    IN  /\ column(traces', r, call'.sel) = column(traces, r, call'.sel)
        /\ \A c \in Cells, r2 \in Rows \ {r} : traces'[c][r2] = traces[c][r2]

\* C8, as claimed: after fill_effective_columns(r, src, dst, sel), dst at row
\* r is all zeros if the selector cell is zero and the former src otherwise;
\* src, sel and every other row are unchanged.
C8_EffectiveSrcKept ==
    [][EffectiveReturned =>
        /\ EffectiveDstFilled
        /\ EffectiveOthersKept
        /\ column(traces', call'.row, call'.src) =
              column(traces, call'.row, call'.src)]_vars

\* C8, amended: the same, src being unchanged unless it is the column dst
\* itself and the selector cell is zero.
C8_EffectiveSelector ==
    [][EffectiveReturned =>
        /\ EffectiveDstFilled
        /\ EffectiveOthersKept
        /\ (call'.src # call'.dst \/ column(traces, call'.row, call'.sel)[0] # 0)
           => column(traces', call'.row, call'.src) =
                column(traces, call'.row, call'.src)]_vars

C8_Witness ==
    /\ pc = "frozen"
    /\ call.op = "fill_effective"
    /\ call.src = "ValueA"
    /\ call.dst = "ValueAEffective"
    /\ call.sel = "IsAdd"
    /\ call.row = 1
    /\ IsAddAt(traces, 1) = 1
    /\ column(traces, 1, "ValueAEffective") = Word(4, 1, 0, 0)
    /\ IsAddAt(traces, 0) = 0
    /\ column(traces, 0, "ValueAEffective") = ZeroWord

\* the rows the steps so far have written
FilledRows == IF pc \in {"add", "panicked"} THEN row_idx + 1 ELSE row_idx

\* C9: a fresh trace is all zeros, and while rows 0..k-1 are filled in
\* increasing order every cell of every row r >= k stays zero, so that IsAdd
\* is 0 and every ADD constraint evaluates to zero on the padding rows.
C9_PaddingRows ==
    /\ (pc = "cpu" /\ row_idx = 0) => traces = TracesNew
    /\ pc \in {"cpu", "add"} =>
          \A r \in Rows :
              r >= FilledRows =>
                  /\ \A c \in Cells : traces[c][r] = 0
                  /\ IsAddAt(traces, r) = 0
                  /\ \A k \in 1..WORD_SIZE : AllZero(traces, r, k)

C9_Witness ==
    /\ pc = "cpu"
    /\ row_idx = 1
    /\ IsAddAt(traces, 0) = 1
    /\ column(traces, 0, "ValueA") = Word(9, 0, 0, 0)
    /\ column(traces, 0, "CarryFlag") = Word(1, 1, 1, 1)
    /\ \A c \in Cells : traces[c][NumRows - 1] = 0

\* the requests TraceEval::new is to make, in order
ExpectedRequests ==
    [k \in 1..(COLUMNS_NUM + PREPROCESSED_COLUMNS_NUM + PROGRAM_COLUMNS_NUM) |->
        IF k <= COLUMNS_NUM
        THEN [interaction |-> ORIGINAL_TRACE_IDX, col |-> k - 1, offsets |-> <<0, 1>>]
        ELSE IF k <= COLUMNS_NUM + PREPROCESSED_COLUMNS_NUM
        THEN [interaction |-> PREPROCESSED_TRACE_IDX, col |-> k - COLUMNS_NUM - 1,
              offsets |-> <<0, 1>>]
        ELSE [interaction |-> PROGRAM_TRACE_IDX,
              col |-> k - COLUMNS_NUM - PREPROCESSED_COLUMNS_NUM - 1,
              offsets |-> <<0>>]]

\* C10: every TraceEval::new of the self-check requests one (current, next)
\* mask per main cell, then one per preprocessed cell, then one (current)
\* mask per program cell, each in schema order; all constructions make the
\* same requests, and the reads of add_constraints add none.
C10_MaskOrder ==
    pc = "checked" =>
        /\ Len(maskLog) >= 1
        /\ \A n \in 1..Len(maskLog) : maskLog[n] = ExpectedRequests
        /\ \A n, m \in 1..Len(maskLog) : maskLog[n] = maskLog[m]

C10_Witness ==
    /\ pc = "checked"
    /\ Len(maskLog) = NumRows
    /\ row_idx >= 1
    /\ report = <<>>

\* v holds the cells of column a, each as many times as a does
IsPermutationOf(v, a) ==
    /\ DOMAIN v = DOMAIN a
    /\ \A x \in {a[r] : r \in DOMAIN a} \cup {v[r] : r \in DOMAIN v} :
          Cardinality({r \in DOMAIN v : v[r] = x}) =
          Cardinality({r \in DOMAIN a : a[r] = x})

\* C11: circle_evaluation returns, for every column, 2^log_size field
\* elements that are a permutation of the cells of the column, and
\* get_base_column returns the same sequences, cell for cell, for the columns
\* of the group asked for.
C11_CirclePermutation ==
    /\ (pc = "evaluated" /\ evals.op = "circle_evaluation") =>
          /\ DOMAIN evals.cols = Cells
          /\ \A c \in Cells :
                /\ Cardinality(DOMAIN evals.cols[c]) = Pow2(LogSize)
                /\ IsPermutationOf(evals.cols[c], traces[c])
    /\ (pc = "evaluated" /\ evals.op = "get_base_column") =>
          /\ DOMAIN evals.cols = 0..(size(evals.col) - 1)
          /\ \A i \in DOMAIN evals.cols :
                /\ IsPermutationOf(evals.cols[i], traces[offset(evals.col) + i])
                /\ evals.cols[i] =
                      circle_evaluation(traces, LogSize)[offset(evals.col) + i]

C11_Witness ==
    /\ pc = "evaluated"
    /\ evals.op = "get_base_column"
    /\ evals.col = "ValueA"
    /\ traces[offset("ValueA")] = [r \in CircleRows |-> IF r = 2 THEN P - 1 ELSE 0]
    /\ evals.cols[0] = [r \in CircleRows |-> IF r = 3 THEN P - 1 ELSE 0]
    /\ evals.cols[1] # traces[offset("ValueA") + 1]

\* C12: in every pass i >= 1 of the loop of AddChip::execute the two
\* overflowing additions never both overflow, so carry[i] = c1 || c2 is the
\* integer carry floor((B[i] + C[i] + carry[i-1]) / 256), is 0 or 1, and is
\* the carry flag the chip writes.
C12_CarryExclusive ==
    [][AddFillsRow =>
        \A i \in 1..(WORD_SIZE - 1) :
            LET b == cur.value_b[i]
                c == cur.value_c[i]
                prev == column(traces', row_idx, "CarryFlag")[i - 1]
                s == LimbStep(b, c, prev = 1)
                k == (b + c + prev) \div 256
            IN  /\ prev \in {0, 1}
                /\ ~(s.c1 /\ s.c2)
                /\ s.carry = (k = 1)
                /\ k \in {0, 1}
                /\ s.sum = (b + c + prev) % 256
                /\ column(traces', row_idx, "CarryFlag")[i] = k
                /\ column(traces', row_idx, "ValueA")[i] = s.sum]_vars

\* limb 1 of 255 + 1 (carry) + 200: the first addition overflows, the second
\* does not
C12_Witness ==
    /\ pc = "cpu"
    /\ row_idx = 1
    /\ column(traces, 0, "ValueB") = Word(255, 255, 0, 0)
    /\ column(traces, 0, "ValueC") = Word(1, 200, 0, 0)
    /\ column(traces, 0, "CarryFlag") = Word(1, 1, 0, 0)
    /\ column(traces, 0, "ValueA") = Word(0, 200, 1, 0)
    /\ LimbStep(255, 200, TRUE).c1
    /\ ~LimbStep(255, 200, TRUE).c2

\* the call made in this step is given a width that is not the size of its
\* column
WidthMismatch ==
    IF call'.op = "fill_effective"
    THEN \/ size(call'.src) # WORD_SIZE
         \/ size(call'.dst) # WORD_SIZE
         \/ size(call'.sel) # 1
    ELSE call'.width # size(call'.src)

\* C13: every access site (column, column_mut, the fill_columns family,
\* get_base_column, fill_effective_columns, the column_eval reads) aborts
\* when the width it is given differs from the size of the column, in a
\* release build as in a debug build, and the trace is then as before the
\* call; a call that returns was given the size of its column.
C13_SizeAsserted ==
    [][(pc = "cpu" /\ call'.op # "none" /\ call'.op # "corrupt") =>
        /\ WidthMismatch => (pc' = "panicked" /\ traces' = traces)
        /\ pc' = "frozen" => ~WidthMismatch]_vars

C13_Witness ==
    /\ pc = "panicked"
    /\ call.op = "fill_effective"
    /\ call.build = "release"
    /\ call.src = "IsAdd"
    /\ call.dst = "IsAdd"
    /\ call.sel = "IsAdd"
    /\ row_idx = 1
    /\ IsAddAt(traces, 0) = 1
    /\ column(traces, 0, "ValueA") = Word(4, 1, 0, 0)

\* the filler the step of OrderedFill ran next to the ADD chip
OtherOfCall ==
    [name |-> call'.filler, src |-> call'.src, dst |-> call'.dst, sel |-> call'.sel]

\* the two fillers of the step have returned
OrderedFillReturned == pc = "cpu" /\ call'.op \in FillOrders /\ pc' = "cpu"

\* the trace is the one the other filler and then the ADD chip leave
SameAsOtherThenAdd ==
    traces' = fill_main_trace(OtherFill(traces, call'.row, cur', OtherOfCall),
                              call'.row, cur')

\* the ADD chip run twice leaves the trace it leaves when run once
AddTwiceAsOnce ==
    call'.op = "add_add" => traces' = fill_main_trace(traces, call'.row, cur')

\* C14, as claimed: the ADD chip and any other filler whose written columns
\* are disjoint from ValueA, ValueAEffective and CarryFlag leave the same
\* trace in either order, and the ADD chip run twice leaves the trace of one
\* run.
C14_AnyDisjointWriter ==
    [][OrderedFillReturned =>
        /\ AddTwiceAsOnce
        /\ (call'.op = "add_other" /\ OtherWrites(OtherOfCall) \cap AddChipColumns = {})
           => SameAsOtherThenAdd]_vars

\* C14, amended: the same for a filler that neither writes nor reads ValueA,
\* ValueAEffective or CarryFlag.
C14_OrderIndependent ==
    [][OrderedFillReturned =>
        /\ AddTwiceAsOnce
        /\ (/\ call'.op = "add_other"
            /\ OtherWrites(OtherOfCall) \cap AddChipColumns = {}
            /\ OtherReads(OtherOfCall) \cap AddChipColumns = {})
           => SameAsOtherThenAdd]_vars

\* the ADD chip, then the CPU chip, on a row that held other values
C14_Witness ==
    /\ pc = "cpu"
    /\ row_idx = 1
    /\ call.op = "add_other"
    /\ call.filler = "cpu"
    /\ call.row = 0
    /\ cur.opcode = "ADD"
    /\ IsAddAt(traces, 0) = 1
    /\ column(traces, 0, "ValueB") = Word(250, 0, 0, 0)
    /\ column(traces, 0, "ValueA") = Word(4, 1, 0, 0)
    /\ column(traces, 0, "CarryFlag") = Word(1, 0, 0, 0)
    /\ \A c \in Cells : traces[c][1] = 200

\* the result the step records is absent, or is not the sum recomputed limb
\* by limb
BadResult(step) == step.result = <<>> \/ step.result[1] # SumBytes(step)

\* C15: on an ADD/ADDI step whose recorded result is absent or differs from
\* the recomputed sum AddChip::fill_main_trace aborts and no cell of the
\* trace has changed; on a step of another opcode it returns, whatever the
\* recorded result.
C15_FatalFillUnchanged ==
    [][pc = "add" =>
        /\ (cur.opcode \in AddOpcodes /\ BadResult(cur))
           => (pc' = "panicked" /\ traces' = traces /\ row_idx' = row_idx)
        /\ (cur.opcode \in AddOpcodes /\ ~BadResult(cur)) => pc' = "cpu"
        /\ cur.opcode \notin AddOpcodes => (pc' = "cpu" /\ traces' = traces)]_vars

\* the second step is an ADD whose recorded result is not the sum; the row
\* holds what the CPU chip wrote and nothing of the ADD chip
C15_Witness ==
    /\ pc = "panicked"
    /\ row_idx = 1
    /\ cur.opcode = "ADD"
    /\ cur.result = <<WrongWord(WrappingAdd(cur.value_b, cur.value_c))>>
    /\ IsAddAt(traces, 1) = 1
    /\ column(traces, 1, "ValueB") = cur.value_b
    /\ column(traces, 1, "ValueA") = ZeroWord
    /\ column(traces, 1, "ValueAEffective") = ZeroWord
    /\ column(traces, 1, "CarryFlag") = ZeroWord
    /\ IsAddAt(traces, 0) = 0

====
